---- MODULE Spec2Model ----
(***************************************************************************)
(* A model of aoc-dt (src/main.py): main -> run -> update_if_possible ->   *)
(* json.load -> parse_data -> display_ranking -> display_total, and the    *)
(* pure function format_dt.                                                *)
(*                                                                         *)
(* JSON objects are functions; a JSON object whose iteration order the     *)
(* code depends on (d["members"], days_dt[day], total_points) is a         *)
(* sequence of <<key, value>> entries in insertion order.  Day keys ("1",  *)
(* "2", ...) are the integers int(day) denotes; str(day) is its inverse on *)
(* those keys.  A member's name is its id.  local_score and stars are      *)
(* copied through by parse_data and read by nothing; they are left out.    *)
(* Flags.year and Flags.json_path name the URL and the cache file; there   *)
(* is one of each here.  Assert statements are executed (no -O).           *)
(***************************************************************************)
EXTENDS Integers, Sequences, FiniteSets, TLC

VARIABLES
    args,      \* docopt's result: the command-line options
    env,       \* os.environ: AOC_LEADERBOARD_ID, AOC_COOKIE
    flags,     \* the Flags main builds
    file,      \* the cache file at flags.json_path: exists, mtime, content
    clock,     \* time.time(), in seconds
    requests,  \* the HTTP requests issued so far
    raw,       \* the object json.load returned
    data,      \* the AOCData parse_data returned
    console,   \* what was printed: messages and tables, in order
    pc,        \* the program's position
    dt,        \* format_dt's argument
    out        \* format_dt's result

vars == <<args, env, flags, file, clock, requests, raw, data, console, pc, dt, out>>

----------------------------------------------------------------------------
(* Bounds of the model *)

\* The leaderboards of the ranking specification.
MaxMembers == 2
MaxDay == 2
MaxTs == 1
MaxRecords == 2

\* The leaderboards of the parsing specification.
MaxParseMembers == 1
MaxParseDay == 2
MaxParseTs == 2
MaxParseRecords == 2

\* The greatest age of the cache file, in seconds: beyond the 15 minutes.
MaxAge == 905

\* The greatest duration format_dt is given, in seconds: beyond the 24 hours.
MaxDt == 86405

----------------------------------------------------------------------------
(* Sequences *)

Range(s) == {s[i] : i \in DOMAIN s}

Max(a, b) == IF a >= b THEN a ELSE b

\* Mutant: an item goes before the items of an equal key.
UnstableInsert(s, x, sign) ==
    LET k == Cardinality({i \in DOMAIN s : sign * s[i][2] < sign * x[2]})
    IN  SubSeq(s, 1, k) \o <<x>> \o SubSeq(s, k + 1, Len(s))

\* Python's sorted(items, key=lambda x: sign * x[1]) is stable: taking the
\* items in order, each goes after every item whose key is not greater.
StableInsert(s, x, sign) ==
    LET k == Cardinality({i \in DOMAIN s : sign * s[i][2] <= sign * x[2]})
    IN  SubSeq(s, 1, k) \o <<x>> \o SubSeq(s, k + 1, Len(s))

RECURSIVE sorted(_, _)
sorted(items, sign) ==
    IF items = << >> THEN << >>
    ELSE StableInsert(sorted(SubSeq(items, 1, Len(items) - 1), sign),
                      items[Len(items)], sign)

\* d[key] of a defaultdict whose default is empty, read as its items().
Items(dict, key) == IF key \in DOMAIN dict THEN dict[key] ELSE << >>

----------------------------------------------------------------------------
(* parse_data *)

\* day_data.get("2", {"get_star_ts": 0})
GetSecond(day_data) ==
    IF 2 \in DOMAIN day_data THEN [get_star_ts |-> day_data[2]]
    ELSE [get_star_ts |-> 0]

delta_time(day_data) == GetSecond(day_data).get_star_ts - day_data[1]

\* Mutant: every day counts, with or without the second star.
AccumulateAlways(acc, day_data) ==
    [acc EXCEPT !.sum_dt = @ + delta_time(day_data), !.count = @ + 1]

\* sum_dt += delta_time; count += 1, under `if "2" in day_data`.
Accumulate(acc, day_data) ==
    IF 2 \in DOMAIN day_data
    THEN [acc EXCEPT !.sum_dt = @ + delta_time(day_data), !.count = @ + 1]
    ELSE acc

\* One iteration of the loop over member_data["completion_day_level"].
DayStep(acc, member_id, day, day_data) ==
    LET a == Accumulate(acc, day_data)
    IN  [a EXCEPT
          !.last_day = Max(@, day),
          !.days = [k \in DOMAIN @ \cup {day} |->
                      IF k = day
                      THEN [delta_time |-> delta_time(day_data),
                            first_complete |-> day_data[1],
                            second_complete |-> GetSecond(day_data)]
                      ELSE @[k]],
          !.days_dt = [k \in DOMAIN @ \cup {day} |->
                      IF k = day
                      THEN Append(Items(@, day), <<member_id, delta_time(day_data)>>)
                      ELSE @[k]]]

\* The loop over completion_day_level; its keys are visited in increasing
\* order (nothing parse_data computes depends on the order).
RECURSIVE DayLoop(_, _, _, _)
DayLoop(acc, member_id, cdl, left) ==
    IF left = {} THEN acc
    ELSE LET day == CHOOSE k \in left : \A j \in left : k <= j
         IN  DayLoop(DayStep(acc, member_id, day, cdl[day]), member_id, cdl,
                     left \ {day})

\* average_dt: a float, kept as the exact fraction num/den.
Sentinel == [num |-> -1, den |-> 1]

average_dt(sum_dt, count) ==
    IF count = 0 THEN Sentinel ELSE [num |-> sum_dt, den |-> count]

\* Python's == on two such floats.
FloatEq(a, b) == a.num * b.den = b.num * a.den

\* One iteration of the loop over d["members"].items().
MemberStep(acc, member_id, member_data) ==
    LET cdl == member_data.completion_day_level
        r == DayLoop([sum_dt |-> 0, count |-> 0, days |-> << >>,
                      last_day |-> acc.last_day, days_dt |-> acc.days_dt],
                     member_id, cdl, DOMAIN cdl)
        member == [id |-> member_id, name |-> member_data.name, days |-> r.days,
                   sum_dt |-> r.sum_dt, avg_dt |-> average_dt(r.sum_dt, r.count)]
    IN  [members |-> [k \in DOMAIN acc.members \cup {member_id} |->
                        IF k = member_id THEN member ELSE acc.members[k]],
         days_dt |-> r.days_dt,
         last_day |-> r.last_day]

RECURSIVE MemberLoop(_, _, _)
MemberLoop(acc, members, i) ==
    IF i > Len(members) THEN acc
    ELSE MemberLoop(MemberStep(acc, members[i][1], members[i][2]), members, i + 1)

NoData == [members |-> << >>, days_dt |-> << >>, last_day |-> 1]

parse_data(d) == MemberLoop(NoData, d.members, 1)

----------------------------------------------------------------------------
(* format_dt *)

Unit(n, letter) == IF n > 0 THEN ToString(n) \o letter ELSE ""

format_dt(t) ==
    IF t > 60 * 60 * 24 THEN ">24h"
    ELSE LET s == t % 60
             m == ((t - s) % (60 * 60)) \div 60
             h == ((t - s - m * 60) % (60 * 60 * 60)) \div 3600
             d == ((t - s - m * 60 - h * 60) % (60 * 60 * 60 * 24)) \div (3600 * 24)
         IN  Unit(d, "d") \o Unit(h, "h") \o Unit(m, "m") \o Unit(s, "s")

----------------------------------------------------------------------------
(* AOCData.ranked_days_dt, display_ranking, display_total *)

ranked_days_dt(dat, day) == sorted(Items(dat.days_dt, day), 1)

\* Mutant: the rank counted from 1.
PointsFromOne(dat, i) == Cardinality(DOMAIN dat.members) - i

\* len(data.members) - rank, for the 0-based rank of the entry at index i.
Points(dat, i) == Cardinality(DOMAIN dat.members) - (i - 1)

\* max(map(int, data.days_dt.keys())); the caller handles the empty case.
MaxKey(dict) == CHOOSE k \in DOMAIN dict : \A j \in DOMAIN dict : j <= k

\* The rows of one day's table.  The filter len(data.members) - rank > 0 cuts
\* a suffix, because the points fall as the rank grows.
RankingRows(dat, day) ==
    LET ranked == ranked_days_dt(dat, day)
        kept == {i \in DOMAIN ranked : Points(dat, i) > 0}
    IN  [i \in 1..Cardinality(kept) |->
            <<dat.members[ranked[i][1]].name, format_dt(ranked[i][2]),
              ToString(Points(dat, i))>>]

\* Reading data.days_dt[str(day)] for day in 1..last inserts the missing days.
Touched(dat, last) ==
    [dat EXCEPT !.days_dt = [k \in DOMAIN @ \cup (1..last) |-> Items(@, k)]]

\* Mutant: = in place of +=.
AddPointsOverwrite(total, member_id, points) ==
    IF \E i \in DOMAIN total : total[i][1] = member_id
    THEN [i \in DOMAIN total |->
            IF total[i][1] = member_id THEN <<member_id, points>> ELSE total[i]]
    ELSE Append(total, <<member_id, points>>)

\* total_points[member_id] += points, on a defaultdict(lambda: 0).
AddPoints(total, member_id, points) ==
    IF \E i \in DOMAIN total : total[i][1] = member_id
    THEN [i \in DOMAIN total |->
            IF total[i][1] = member_id THEN <<member_id, total[i][2] + points>>
            ELSE total[i]]
    ELSE Append(total, <<member_id, 0 + points>>)

\* for rank, (member_id, dt) in enumerate(scores)
RECURSIVE RankLoop(_, _, _, _)
RankLoop(total, dat, scores, i) ==
    IF i > Len(scores) THEN total
    ELSE RankLoop(AddPoints(total, scores[i][1], Points(dat, i)), dat, scores, i + 1)

\* for day in range(1, data.last_day + 1)
RECURSIVE TotalLoop(_, _, _)
TotalLoop(total, dat, day) ==
    IF day > dat.last_day THEN total
    ELSE TotalLoop(RankLoop(total, dat, sorted(Items(dat.days_dt, day), 1), 1),
                   dat, day + 1)

total_points(dat) == TotalLoop(<< >>, dat, 1)

id_points_ordered(dat) == sorted(total_points(dat), -1)

TotalRows(dat) ==
    LET ordered == id_points_ordered(dat)
    IN  [i \in DOMAIN ordered |->
            <<dat.members[ordered[i][1]].name, ToString(ordered[i][2])>>]

----------------------------------------------------------------------------
(* run, from the parse on *)

ParseData ==
    /\ pc = "parse"
    /\ data' = parse_data(raw)
    /\ pc' = "display_ranking"
    /\ UNCHANGED <<args, env, flags, file, clock, requests, raw, console, dt, out>>

\* if flags.show_ranking: display_ranking(data).  max() of no keys raises.
DisplayRanking ==
    /\ pc = "display_ranking"
    /\ IF ~flags.show_ranking
       THEN /\ pc' = "display_total"
            /\ UNCHANGED <<data, console>>
       ELSE IF DOMAIN data.days_dt = {}
       THEN /\ pc' = "abort"
            /\ UNCHANGED <<data, console>>
       ELSE LET last_day == MaxKey(data.days_dt)
            IN  /\ console' = console \o
                       [day \in 1..last_day |->
                           [view |-> "ranking", day |-> day,
                            rows |-> RankingRows(data, day)]]
                /\ data' = Touched(data, last_day)
                /\ pc' = "display_total"
    /\ UNCHANGED <<args, env, flags, file, clock, requests, raw, dt, out>>

\* if flags.show_total: display_total(data)
DisplayTotal ==
    /\ pc = "display_total"
    /\ IF ~flags.show_total
       THEN UNCHANGED <<data, console>>
       ELSE /\ console' = Append(console, [view |-> "total", day |-> 0,
                                           rows |-> TotalRows(data)])
            /\ data' = Touched(data, data.last_day)
    /\ pc' = "done"
    /\ UNCHANGED <<args, env, flags, file, clock, requests, raw, dt, out>>

----------------------------------------------------------------------------
(* main, run, update_if_possible *)

None == "None"

\* bool(v) of an optional string.
Truthy(v) == v # None /\ v # ""

\* Mutant: the operands swapped.
OrSecondFirst(a, b) == IF Truthy(b) THEN b ELSE a

\* Python's `a or b`.
Or(a, b) == IF Truthy(a) THEN a ELSE b

Say(what) == [view |-> what, day |-> 0, rows |-> << >>]

\* main: the options and the environment resolve to Flags, or an assert fails.
Main ==
    /\ pc = "main"
    /\ LET leaderboard_id == Or(args.leaderboard, env.AOC_LEADERBOARD_ID)
           cookie == Or(args.cookie, env.AOC_COOKIE)
       IN  /\ console' = IF args.verbose THEN Append(console, Say("args"))
                         ELSE console
           /\ IF Truthy(leaderboard_id) /\ Truthy(cookie)
              THEN /\ flags' = [update |-> args.update,
                                show_ranking |-> args.ranking,
                                show_total |-> args.total,
                                leaderboard_id |-> leaderboard_id,
                                cookie |-> cookie]
                   /\ pc' = "run"
              ELSE /\ flags' = flags
                   /\ pc' = "abort"
    /\ UNCHANGED <<args, env, file, clock, requests, raw, data, dt, out>>

\* run: if flags.update, update_if_possible is called.
Run ==
    /\ pc = "run"
    /\ pc' = IF flags.update THEN "update" ELSE "load"
    /\ UNCHANGED <<args, env, flags, file, clock, requests, raw, data, console, dt, out>>

\* Mutant: 15 seconds for 15 minutes.
TooRecentSeconds(f, t) == f.exists /\ t - f.mtime < 15

\* os.path.getmtime raises FileNotFoundError on a missing file, which is
\* passed over; a file younger than 15 minutes ends the update with True.
TooRecent(f, t) == f.exists /\ t - f.mtime < 15 * 60

UpdateCheck ==
    /\ pc = "update"
    /\ IF TooRecent(file, clock)
       THEN /\ console' = Append(console, Say("refusing"))
            /\ pc' = "load"
       ELSE /\ console' = console
            /\ pc' = "request"
    /\ UNCHANGED <<args, env, flags, file, clock, requests, raw, data, dt, out>>

\* What the server may answer: r.ok, and a body that is JSON text or not.
Board(members) == [members |-> members]

Star1(t1) == <<t1>>
Star2(t1, t2) == <<t1, t2>>

Entry(id, cdl) == <<id, [name |-> id, completion_day_level |-> cdl]>>

CachedBoard == Board(<<Entry(1, 1 :> Star2(1, 2))>>)

FetchedBoard == Board(<<Entry(1, 1 :> Star2(1, 2)), Entry(2, 1 :> Star1(1))>>)

Text(ok, object) == [json |-> ok, object |-> object]

Bodies == {Text(TRUE, FetchedBoard), Text(FALSE, Board(<< >>))}

\* The file after open(path, "w") and json.dump(data, f) at time t.
Written(object, t) == [exists |-> TRUE, mtime |-> t, content |-> Text(TRUE, object)]

\* Mutant: the file is written before r.ok is looked at.
AfterResponseWritten(f, t, ok, body) ==
    IF ~ok THEN [file |-> Written(body.object, t), say |-> <<Say("response")>>,
                 pc |-> "abort"]
    ELSE IF ~body.json THEN [file |-> f, say |-> << >>, pc |-> "abort"]
    ELSE [file |-> Written(body.object, t), say |-> <<Say("wrote")>>, pc |-> "load"]

\* What follows requests.get: a response that is not ok returns False, and
\* run's assert fails; r.json() raises on a body that is not JSON; else the
\* file is written and True returned.
AfterResponse(f, t, ok, body) ==
    IF ~ok THEN [file |-> f, say |-> <<Say("response")>>, pc |-> "abort"]
    ELSE IF ~body.json THEN [file |-> f, say |-> << >>, pc |-> "abort"]
    ELSE [file |-> Written(body.object, t), say |-> <<Say("wrote")>>, pc |-> "load"]

\* The rest of update_if_possible.  Each request is logged with its response.
Request ==
    /\ pc = "request"
    /\ \E ok \in BOOLEAN, body \in Bodies :
          LET r == AfterResponse(file, clock, ok, body)
          IN  /\ requests' = Append(requests,
                                    [leaderboard_id |-> flags.leaderboard_id,
                                     cookie |-> flags.cookie,
                                     ok |-> ok, body |-> body])
              /\ file' = r.file
              /\ console' = console \o r.say
              /\ pc' = r.pc
    /\ UNCHANGED <<args, env, flags, clock, raw, data, dt, out>>

\* with open(flags.json_path) as f: data = json.load(f).  A missing file and
\* text that is not JSON raise.
Load ==
    /\ pc = "load"
    /\ IF file.exists /\ file.content.json
       THEN /\ raw' = file.content.object
            /\ pc' = "parse"
       ELSE /\ raw' = raw
            /\ pc' = "abort"
    /\ UNCHANGED <<args, env, flags, file, clock, requests, data, console, dt, out>>

FormatDt ==
    /\ pc = "format_dt"
    /\ out' = format_dt(dt)
    /\ pc' = "done"
    /\ UNCHANGED <<args, env, flags, file, clock, requests, raw, data, console, dt>>

----------------------------------------------------------------------------
(* The leaderboards a specification starts from *)

\* {"1": {"get_star_ts": t1}} and {"1": {...}, "2": {"get_star_ts": t2}}
DayData(maxTs) == {Star1(t1) : t1 \in 1..maxTs} \cup ((1..maxTs) \X (1..maxTs))

\* The member ids of a leaderboard, in the order of its "members" object.
IdSeqs(maxMembers) ==
    {ids \in UNION {[1..n -> 1..maxMembers] : n \in 0..maxMembers} :
        \A i, j \in DOMAIN ids : i # j => ids[i] # ids[j]}

\* The (member, day) pairs that have a star record: at most maxRecords.
RecordSets(ids, maxDay, maxRecords) ==
    {Q \in SUBSET (Range(ids) \X (1..maxDay)) : Cardinality(Q) <= maxRecords}

Leaderboard(ids, stars) ==
    Board([i \in DOMAIN ids |->
              Entry(ids[i],
                    [day \in {p[2] : p \in {q \in DOMAIN stars : q[1] = ids[i]}}
                        |-> stars[<<ids[i], day>>]])])

NoFile == [exists |-> FALSE, mtime |-> 0, content |-> Text(FALSE, Board(<< >>))]

NoFlags == [update |-> FALSE, show_ranking |-> FALSE, show_total |-> FALSE,
            leaderboard_id |-> None, cookie |-> None]

Options(leaderboard, cookie, update, ranking, total, verbose) ==
    [leaderboard |-> leaderboard, cookie |-> cookie, update |-> update,
     ranking |-> ranking, total |-> total, verbose |-> verbose]

NoEnv == [AOC_LEADERBOARD_ID |-> None, AOC_COOKIE |-> None]

\* The state run is in once json.load has returned `board`, both views asked.
Loaded(board) ==
    /\ raw = board
    /\ pc = "parse"
    /\ args = Options("L", "C", FALSE, TRUE, TRUE, FALSE)
    /\ env = NoEnv
    /\ flags = [update |-> FALSE, show_ranking |-> TRUE, show_total |-> TRUE,
                leaderboard_id |-> "L", cookie |-> "C"]
    /\ file = Written(board, 0)
    /\ clock = MaxAge
    /\ requests = << >>
    /\ data = NoData
    /\ console = << >>
    /\ dt = 0
    /\ out = ""

----------------------------------------------------------------------------
(* The specifications *)

\* Ranking: parse_data, display_ranking, display_total on every leaderboard
\* of at most MaxMembers members, MaxDay days and MaxRecords star records.
InitRank ==
    \E ids \in IdSeqs(MaxMembers) :
        \E P \in RecordSets(ids, MaxDay, MaxRecords) :
            \E stars \in [P -> DayData(MaxTs)] :
                Loaded(Leaderboard(ids, stars))

NextRank == ParseData \/ DisplayRanking \/ DisplayTotal

SpecRank == InitRank /\ [][NextRank]_vars

\* Parsing: the same on leaderboards of fewer members and later timestamps.
InitParse ==
    \E ids \in IdSeqs(MaxParseMembers) :
        \E P \in RecordSets(ids, MaxParseDay, MaxParseRecords) :
            \E stars \in [P -> DayData(MaxParseTs)] :
                Loaded(Leaderboard(ids, stars))

SpecParse == InitParse /\ [][NextRank]_vars

\* The whole program.  Either the credentials are given and the cache file,
\* its age and the options vary, or the cache file is one of three and the
\* credentials vary.
Files ==
    {NoFile} \cup
    {[exists |-> TRUE, mtime |-> t, content |-> c] :
        t \in 0..MaxAge + 1,
        c \in {Text(TRUE, CachedBoard), Text(FALSE, Board(<< >>))}}

InitCache ==
    /\ file \in Files
    /\ \E update, ranking, total \in BOOLEAN :
          args = Options("L", "C", update, ranking, total, FALSE)
    /\ env = NoEnv

InitCredentials ==
    /\ file \in {NoFile, Written(CachedBoard, 0), Written(CachedBoard, MaxAge)}
    /\ \E leaderboard \in {None, "", "L"}, cookie \in {None, "", "C"},
          update, verbose \in BOOLEAN :
          args = Options(leaderboard, cookie, update, TRUE, TRUE, verbose)
    /\ \E id \in {None, "", "EL"}, cookie \in {None, "", "EC"} :
          env = [AOC_LEADERBOARD_ID |-> id, AOC_COOKIE |-> cookie]

InitRun ==
    /\ InitCache \/ InitCredentials
    /\ pc = "main"
    /\ flags = NoFlags
    /\ clock = MaxAge
    /\ requests = << >>
    /\ raw = Board(<< >>)
    /\ data = NoData
    /\ console = << >>
    /\ dt = 0
    /\ out = ""

NextRun ==
    \/ Main
    \/ Run
    \/ UpdateCheck
    \/ Request
    \/ Load
    \/ ParseData
    \/ DisplayRanking
    \/ DisplayTotal

SpecRun == InitRun /\ [][NextRun]_vars

\* format_dt on every duration from 0 to MaxDt seconds.
InitFormat ==
    /\ dt \in 0..MaxDt
    /\ out = ""
    /\ pc = "format_dt"
    /\ args = Options("L", "C", FALSE, FALSE, FALSE, FALSE)
    /\ env = NoEnv
    /\ flags = NoFlags
    /\ file = NoFile
    /\ clock = 0
    /\ requests = << >>
    /\ raw = Board(<< >>)
    /\ data = NoData
    /\ console = << >>

NextFormat == FormatDt

SpecFormat == InitFormat /\ [][NextFormat]_vars

----------------------------------------------------------------------------
(* What the properties read off a state *)

\* parse_data has returned.
Parsed == pc \in {"display_ranking", "display_total", "done"}

\* display_ranking has returned (the ranking was asked for).
RankingShown == pc \in {"display_total", "done"} /\ flags.show_ranking

\* display_total has returned (the totals were asked for).
TotalShown == pc = "done" /\ flags.show_total

\* The input, read directly: ids, positions in the "members" object, stars.
InputIds == {raw.members[i][1] : i \in DOMAIN raw.members}

Pos(id) == CHOOSE i \in DOMAIN raw.members : raw.members[i][1] = id

Stars(id) == raw.members[Pos(id)][2].completion_day_level

Reporting(day) == {id \in InputIds : day \in DOMAIN Stars(id)}

TwoStarDays(id) == {day \in DOMAIN Stars(id) : Len(Stars(id)[day]) = 2}

OneStarDays(id) == DOMAIN Stars(id) \ TwoStarDays(id)

InputDays == UNION {DOMAIN Stars(id) : id \in InputIds}

RECURSIVE SetSum(_, _)
SetSum(f, S) ==
    IF S = {} THEN 0
    ELSE LET x == CHOOSE y \in S : TRUE IN f[x] + SetSum(f, S \ {x})

RECURSIVE SeqSum(_)
SeqSum(q) == IF q = << >> THEN 0 ELSE q[1] + SeqSum(Tail(q))

\* The printed tables.
RankingTables == {e \in Range(console) : e.view = "ranking"}

TotalTables == {e \in Range(console) : e.view = "total"}

\* The 0-based rank of a member in a day's printed table.
RankIn(e, id) == (CHOOSE i \in DOMAIN e.rows : e.rows[i][1] = id) - 1

----------------------------------------------------------------------------
(* C1 *)

\* The total a row of the totals table shows, as a number.
ShownTotal(row) ==
    CHOOSE n \in 0..Len(raw.members) * Cardinality(InputDays) : ToString(n) = row[2]

\* The totals the totals table shows, summed.
ShownTotals ==
    LET e == CHOOSE t \in TotalTables : TRUE
    IN  SeqSum([i \in DOMAIN e.rows |-> ShownTotal(e.rows[i])])

\* The points of one day, summed: first - 0, first - 1, ..., for n ranks.
DayPoints(first, n) == SetSum([r \in 0..n - 1 |-> first - r], 0..n - 1)

\* C1, as claimed: on a day on which N members report, the ranks 0..N-1 get
\* the points N, N-1, ..., 1, in the ranking table and in the totals, also
\* when the leaderboard has more than N members.
C1_PointsFromReporting ==
    /\ RankingShown =>
          \A e \in RankingTables :
              LET N == Cardinality(Reporting(e.day))
              IN  /\ Len(e.rows) = N
                  /\ \A i \in 1..N : e.rows[i][3] = ToString(N - (i - 1))
    /\ TotalShown =>
          ShownTotals
              = SetSum([day \in InputDays |-> DayPoints(Cardinality(Reporting(day)),
                                                        Cardinality(Reporting(day)))],
                       InputDays)

\* C1, amended: on a day on which N of the leaderboard's M members report,
\* the ranks 0..N-1 get the points M, M-1, ..., M-N+1, with no gaps, in the
\* ranking table and in the totals; these are N, ..., 1 when N = M.
C1_PointsFromMembers ==
    /\ RankingShown =>
          \A e \in RankingTables :
              LET N == Cardinality(Reporting(e.day))
                  M == Len(raw.members)
              IN  /\ Len(e.rows) = N
                  /\ \A i \in 1..N : e.rows[i][3] = ToString(M - (i - 1))
    /\ TotalShown =>
          ShownTotals
              = SetSum([day \in InputDays |-> DayPoints(Len(raw.members),
                                                        Cardinality(Reporting(day)))],
                       InputDays)

\* A day on which one of two members reports has been ranked and totalled.
C1_Witness ==
    /\ TotalShown
    /\ RankingShown
    /\ Len(raw.members) = 2
    /\ \E e \in RankingTables : Cardinality(Reporting(e.day)) = 1 /\ Len(e.rows) = 1

----------------------------------------------------------------------------
(* C2 *)

\* C2: ranked_days_dt(day) holds every entry of the day's mapping once, by
\* delta time ascending, entries of equal delta time in the order in which
\* parsing inserted their members; the ranking table lists them so.
C2_RankedStable ==
    Parsed =>
        \A day \in InputDays :
            LET ranked == ranked_days_dt(data, day)
                ids == {ranked[i][1] : i \in DOMAIN ranked}
            IN  /\ Len(ranked) = Cardinality(Reporting(day))
                /\ ids = Reporting(day)
                /\ \A i \in DOMAIN ranked :
                      ranked[i][2] = data.members[ranked[i][1]].days[day].delta_time
                /\ \A i, j \in DOMAIN ranked :
                      i < j =>
                          /\ ranked[i][2] <= ranked[j][2]
                          /\ ranked[i][2] = ranked[j][2]
                                => Pos(ranked[i][1]) < Pos(ranked[j][1])
                /\ RankingShown =>
                      \E e \in RankingTables :
                          /\ e.day = day
                          /\ Len(e.rows) = Len(ranked)
                          /\ \A i \in DOMAIN ranked : e.rows[i][1] = ranked[i][1]

\* Two members tie on a day and are ranked, the member of the greater id
\* first: the order of parsing decides, not the id.
C2_Witness ==
    /\ RankingShown
    /\ \E day \in InputDays :
          LET ranked == ranked_days_dt(data, day)
          IN  /\ Len(ranked) = 2
              /\ ranked[1][2] = ranked[2][2]
              /\ ranked[1][1] > ranked[2][1]

----------------------------------------------------------------------------
(* C3 *)

\* The points the ranking table of a day shows for a member, as a number.
ShownPoints(day, id) ==
    LET e == CHOOSE t \in RankingTables : t.day = day
    IN  CHOOSE n \in 0..Len(raw.members) : ToString(n) = e.rows[RankIn(e, id) + 1][3]

ExpectedTotal(id) ==
    LET days == DOMAIN Stars(id)
    IN  SetSum([day \in days |-> ShownPoints(day, id)], days)

----------------------------------------------------------------------------
(* C4 *)

\* C4: a member's avg_dt is the sentinel -1 exactly if the member has no day
\* with both stars, whatever the timestamps.
C4_SentinelIffNoTwoStarDay ==
    Parsed =>
        \A id \in InputIds :
            FloatEq(data.members[id].avg_dt, Sentinel) <=> TwoStarDays(id) = {}

----------------------------------------------------------------------------
(* C5 *)

\* C5: a day with a first star at t1 and no second star is recorded with the
\* delta time 0 - t1, is in the day's entry of days_dt, and counts neither in
\* sum_dt nor in the divisor of avg_dt: sum_dt is the sum of t2 - t1 over the
\* days with both stars, and avg_dt divides it by their number.
C5_OneStarDays ==
    Parsed =>
        \A id \in InputIds :
            LET member == data.members[id]
                two == TwoStarDays(id)
            IN  /\ \A day \in OneStarDays(id) :
                      /\ member.days[day].delta_time = 0 - Stars(id)[day][1]
                      /\ \E i \in DOMAIN Items(data.days_dt, day) :
                            data.days_dt[day][i] = <<id, 0 - Stars(id)[day][1]>>
                /\ member.sum_dt
                      = SetSum([day \in two |-> Stars(id)[day][2] - Stars(id)[day][1]], two)
                /\ two # {} =>
                      /\ member.avg_dt.num = member.sum_dt
                      /\ member.avg_dt.den = Cardinality(two)

\* A member with a one-star day and a two-star day has been parsed.
C5_Witness ==
    /\ Parsed
    /\ \E id \in InputIds : OneStarDays(id) # {} /\ TwoStarDays(id) # {}

----------------------------------------------------------------------------
(* C6 *)

\* C6: on every day the member at rank 0 has the smallest time between first
\* and second star of the members ranked, and no member without the second
\* star is ranked above (gets more points than) a member with both stars.
C6_FastestFirst ==
    RankingShown =>
        \A e \in RankingTables :
            /\ \A i, j \in DOMAIN e.rows :
                  (e.day \in OneStarDays(e.rows[i][1]) /\ e.day \in TwoStarDays(e.rows[j][1]))
                      => j < i
            /\ \A j \in DOMAIN e.rows :
                  (e.day \in TwoStarDays(e.rows[j][1]))
                      => /\ e.day \in TwoStarDays(e.rows[1][1])
                         /\ Stars(e.rows[1][1])[e.day][2] - Stars(e.rows[1][1])[e.day][1]
                               <= Stars(e.rows[j][1])[e.day][2] - Stars(e.rows[j][1])[e.day][1]

----------------------------------------------------------------------------
(* C7 *)

Refused == \E i \in DOMAIN console : console[i].view = "refusing"

Last(q) == q[Len(q)]

\* C7: with update asked and a cache file modified less than 15 minutes ago,
\* update_if_possible issues no request, leaves the file as it is and
\* returns True, and run loads and parses that file and renders the views
\* asked for; a request is issued only for a file missing or at least 15
\* minutes old.
C7_FreshCacheIsUsed ==
    [][/\ (pc = "update" /\ file.exists /\ clock - file.mtime < 900)
              => (pc' = "load" /\ Refused' /\ file' = file /\ requests' = requests)
       /\ requests' # requests
              => (flags.update /\ (~file.exists \/ clock - file.mtime >= 900))
       /\ Refused'
              => /\ file' = file
                 /\ requests' = << >>
                 /\ pc' = "abort" => ~file.content.json
                 /\ pc' = "done"
                       => /\ raw' = file.content.object
                          /\ data'.members = parse_data(file.content.object).members
                          /\ (RankingTables' # {}) = flags.show_ranking
                          /\ (TotalTables' # {}) = flags.show_total]_vars

\* A run with update asked and a file 5 minutes old has rendered both views.
C7_Witness ==
    /\ pc = "done"
    /\ Refused
    /\ flags.update
    /\ clock - file.mtime = 300
    /\ RankingTables # {}
    /\ TotalTables # {}

----------------------------------------------------------------------------
(* C8 *)

\* C8: after a response that is not a success the cache file is as it was
\* and run aborts with nothing loaded, parsed or rendered; the file changes
\* only by being overwritten with the body of a success response.
C8_FailedFetchWritesNothing ==
    [][/\ (requests' # requests /\ ~Last(requests').ok)
              => /\ file' = file
                 /\ Last(console').view = "response"
                 /\ pc' = "abort"
                 /\ raw' = Board(<< >>)
                 /\ data' = NoData
                 /\ RankingTables' = {}
                 /\ TotalTables' = {}
       /\ file' # file
              => /\ requests' # requests
                 /\ Last(requests').ok
                 /\ file'.exists
                 /\ file'.content = Last(requests').body
       /\ pc = "abort" => pc' = "abort"]_vars

\* A fetch for a stale file failed, and the file is still there.
C8_Witness ==
    /\ pc = "abort"
    /\ requests # << >>
    /\ ~Last(requests).ok
    /\ file.exists
    /\ file.content = Text(TRUE, CachedBoard)

----------------------------------------------------------------------------
(* C9 *)

Letter(n, letter) == IF n = 0 THEN "" ELSE ToString(n) \o letter

\* dt = d*86400 + h*3600 + m*60 + s with h < 24, m < 60, s < 60.
Decomposed(t) ==
    Letter(t \div 86400, "d") \o Letter((t % 86400) \div 3600, "h")
        \o Letter((t % 3600) \div 60, "m") \o Letter(t % 60, "s")

\* C9: for 0 <= dt <= 86400 format_dt(dt) is the standard decomposition of dt
\* into d, h, m, s, the zero components left out; for dt above 24 hours it
\* is ">24h".
C9_StandardDecomposition ==
    pc = "done" => out = IF dt > 86400 THEN ">24h" ELSE Decomposed(dt)

----------------------------------------------------------------------------
(* C10 *)

\* A value is supplied if it is there and not empty.
Supplied(v) == v # None /\ v # ""

CredentialsSupplied ==
    /\ Supplied(args.leaderboard) \/ Supplied(env.AOC_LEADERBOARD_ID)
    /\ Supplied(args.cookie) \/ Supplied(env.AOC_COOKIE)

\* C10: without a leaderboard id or without a cookie, from the option and
\* from the environment, main fails before run is entered: no request, no
\* read or write of the cache file, no view; with both, run is entered with
\* the option's value where there is one, the environment's otherwise.
C10_CredentialsRequired ==
    [][pc = "main" =>
          IF CredentialsSupplied
          THEN /\ pc' = "run"
               /\ flags'.leaderboard_id =
                     IF Supplied(args.leaderboard) THEN args.leaderboard
                     ELSE env.AOC_LEADERBOARD_ID
               /\ flags'.cookie =
                     IF Supplied(args.cookie) THEN args.cookie ELSE env.AOC_COOKIE
          ELSE /\ pc' = "abort"
               /\ requests' = << >>
               /\ file' = file
               /\ raw' = raw
               /\ data' = NoData
               /\ RankingTables' = {}
               /\ TotalTables' = {}]_vars

\* main failed for want of a cookie, the leaderboard id being there.
C10_Witness ==
    /\ pc = "abort"
    /\ flags = NoFlags
    /\ Supplied(args.leaderboard)
    /\ ~Supplied(args.cookie)
    /\ ~Supplied(env.AOC_COOKIE)
    /\ requests = << >>

====
